---- MODULE Spec2Model ----
(***************************************************************************)
(* Model of src/src/index.ts: the v-transition directive of                *)
(* petite-vue-transition.  One directive call binds either an auxiliary    *)
(* argument (name, duration) or the visibility effect of an element; the   *)
(* effect drives enter/leave classes through double animation frames and   *)
(* whenTransitionEnd, which races timers against transitionend events.     *)
(*                                                                         *)
(* Spec is the directive on one element with every kind of binding;          *)
(* SpecInfo is one completion wait over many computed styles; SpecTwo is    *)
(* two elements sharing the module-level id counter.                       *)
(*                                                                         *)
(* JavaScript values are records [kind, str, num, arr] so that every       *)
(* dynamically typed slot has one shape.  A string that the code splits on *)
(* whitespace is held as the sequence of its tokens; a CSS time string is  *)
(* held as the sequence of its characters.                                 *)
(***************************************************************************)
EXTENDS Integers, Sequences, FiniteSets, TLC

VARIABLES
    classList,        \* el.classList, per element: a set of class tokens
    display,          \* el.style.display, per element ("" when nothing is set)
    hasStyle,         \* whether el.style exists (isHTMLElement), per element
    props,            \* the expando fields _name, _duration, _show, _endId of each element
    endId,            \* the module-level counter `let endId = 0`
    bound,            \* per element: the visibility effect is registered and not torn down
    mounted,          \* per element: `mounted` of the live directive closure
    originalDisplay,  \* per element: `originalDisaplay` of the live directive closure
    rafQueue,         \* callbacks handed to requestAnimationFrame, in request order
    waits,            \* one record per whenTransitionEnd call, indexed by its id
    binds,            \* history: number of directive calls so far
    phase,            \* history: number of post-mount effect runs so far
    lastPhase,        \* history: per element, number and direction of its latest phase
    shown,            \* history: per element, the latest value delivered to its effect
    mountNo,          \* history: per element, number of visibility bindings so far
    cleaned,          \* history: per element, cleanup ran and no directive was bound since
    ops               \* history: the DOM operations (class add/remove, display write,
                      \* layout read) of the latest handler that made any, in order

vars == <<classList, display, hasStyle, props, endId, bound, mounted, originalDisplay,
          rafQueue, waits, binds, phase, lastPhase, shown, mountNo, cleaned, ops>>

-----------------------------------------------------------------------------
\* Bounds of the model.

\* post-mount runs of the visibility effect in one behaviour
MaxPhases == 2

\* calls of the directive function in one behaviour
MaxBinds == 3

-----------------------------------------------------------------------------
\* JavaScript values.

Undefined == [kind |-> "undefined", str |-> <<>>, num |-> 0, arr |-> <<>>]
Num(n) == [kind |-> "number", str |-> <<>>, num |-> n, arr |-> <<>>]
Str(s) == [kind |-> "string", str |-> s, num |-> 0, arr |-> <<>>]
Arr(a) == [kind |-> "array", str |-> <<>>, num |-> 0, arr |-> a]

\* Array.isArray(v)
IsArray(v) == v.kind = "array"

\* truthiness of a value used as a condition
Truthy(v) ==
    CASE v.kind = "undefined" -> FALSE
      [] v.kind = "number" -> v.num # 0
      [] v.kind = "string" -> v.str # <<>>
      [] OTHER -> TRUE

\* v?.[i], i counted from 0
OptIndex(v, i) ==
    IF v.kind = "array" /\ i + 1 <= Len(v.arr) THEN Num(v.arr[i + 1]) ELSE Undefined

-----------------------------------------------------------------------------
\* Program constants.

DefautlTransitionName == <<"v">>

TransitionArgument == [Name |-> "name", Duration |-> "duration", Show |-> "show"]

DefaultArg == TransitionArgument.Show

propsToClean == {"_name", "_duration", "_show", "_endId"}

ArgSet == {TransitionArgument.Name, TransitionArgument.Duration, TransitionArgument.Show}

isTransitionArugument(arg) == arg \in ArgSet

-----------------------------------------------------------------------------
\* Inputs the environment supplies.

\* directive arguments: none (""), the three recognized ones, an unrecognized one
Args == {"", "name", "duration", "show", "appear"}

\* values bound to v-transition:name
NameVals == {Str(<<"a", "b">>)}

\* values bound to v-transition:duration
DurationVals == {Num(500), Arr(<<300, 0>>)}

DigitChar(d) == <<"0", "1", "2", "3", "4", "5", "6", "7", "8", "9">>[d + 1]

RECURSIVE NatDigits(_)
\* the decimal numeral of a natural number
NatDigits(n) ==
    IF n < 10 THEN <<DigitChar(n)>> ELSE Append(NatDigits(n \div 10), DigitChar(n % 10))

\* the fractional digits of f thousandths, without trailing zeros
FracDigits(f) ==
    IF f % 100 = 0 THEN <<DigitChar(f \div 100)>>
    ELSE IF f % 10 = 0 THEN <<DigitChar(f \div 100), DigitChar((f \div 10) % 10)>>
    ELSE <<DigitChar(f \div 100), DigitChar((f \div 10) % 10), DigitChar(f % 10)>>

\* how getComputedStyle writes a time of ms milliseconds: in seconds, with sep as
\* decimal separator ("," in old Chromium under some locales)
CssTime(ms, sep) ==
    LET a == IF ms < 0 THEN 0 - ms ELSE ms
    IN  (IF ms < 0 THEN <<"-">> ELSE <<>>)
        \o NatDigits(a \div 1000)
        \o (IF a % 1000 = 0 THEN <<>> ELSE <<sep>> \o FracDigits(a % 1000))
        \o <<"s">>

RECURSIVE CssTimeList(_, _)
\* a list of times as the computed style writes it, entries separated by ", "
CssTimeList(list, sep) ==
    IF Len(list) = 1 THEN CssTime(list[1], sep)
    ELSE CssTime(list[1], sep) \o <<",", " ">> \o CssTimeList(Tail(list), sep)

\* what getComputedStyle(el) returns for an element whose transition-delay and
\* transition-duration are the given lists of milliseconds; the lists themselves
\* are kept beside the strings the code reads
ComputedStyle(delaysMs, durationsMs, sep) ==
    [transitionDelay |-> Str(CssTimeList(delaysMs, sep)),
     transitionDuration |-> Str(CssTimeList(durationsMs, sep)),
     delaysMs |-> delaysMs, durationsMs |-> durationsMs]

\* the computed style under JSDOM: the transition properties are undefined
NoStyles ==
    [transitionDelay |-> Undefined, transitionDuration |-> Undefined,
     delaysMs |-> <<>>, durationsMs |-> <<>>]

\* computed transition-delay / transition-duration lists: undefined, or
\* "0s, 0.1s" / "0.2s, 0.3s"
Styles == {NoStyles, ComputedStyle(<<0, 100>>, <<200, 300>>, ".")}

-----------------------------------------------------------------------------
\* Computed-style arithmetic (pure functions).

RECURSIVE SplitFrom(_, _, _)
\* the pieces of s from position i on, cur being the piece under construction
SplitFrom(s, i, cur) ==
    IF i > Len(s) THEN <<cur>>
    ELSE IF s[i] = "," /\ i + 1 <= Len(s) /\ s[i + 1] = " "
         THEN <<cur>> \o SplitFrom(s, i + 2, <<>>)
         ELSE SplitFrom(s, i + 1, Append(cur, s[i]))

\* (styles[key] || '').split(', ')
getStyleProperties(v) == SplitFrom(IF Truthy(v) THEN v.str ELSE <<>>, 1, <<>>)

DigitVal(c) ==
    CASE c = "0" -> 0 [] c = "1" -> 1 [] c = "2" -> 2 [] c = "3" -> 3 [] c = "4" -> 4
      [] c = "5" -> 5 [] c = "6" -> 6 [] c = "7" -> 7 [] c = "8" -> 8 [] c = "9" -> 9

RECURSIVE DigitsVal(_)
\* the natural number written by a sequence of digits (0 for none)
DigitsVal(t) ==
    IF t = <<>> THEN 0 ELSE 10 * DigitsVal(SubSeq(t, 1, Len(t) - 1)) + DigitVal(t[Len(t)])

\* s.replace(',', '.'): the first comma only
ReplaceComma(t) ==
    IF \E i \in 1..Len(t) : t[i] = ","
    THEN LET i == CHOOSE j \in 1..Len(t) : t[j] = "," /\ \A k \in 1..(j - 1) : t[k] # ","
         IN  [t EXCEPT ![i] = "."]
    ELSE t

\* Number(t) * 1000 for an unsigned decimal numeral with at most three fractional
\* digits (Number('') is 0)
UnsignedTimes1000(t) ==
    LET dots == {i \in 1..Len(t) : t[i] = "."}
        p    == IF dots = {} THEN Len(t) + 1 ELSE CHOOSE i \in dots : TRUE
        ip   == SubSeq(t, 1, p - 1)
        fp   == SubSeq(t, p + 1, Len(t))
        pad  == fp \o SubSeq(<<"0", "0", "0">>, 1, 3 - Len(fp))
    IN  1000 * DigitsVal(ip) + DigitsVal(pad)

\* Number(t) * 1000 for a decimal numeral with an optional minus sign
NumberTimes1000(t) ==
    IF t # <<>> /\ t[1] = "-" THEN 0 - UnsignedTimes1000(SubSeq(t, 2, Len(t)))
    ELSE UnsignedTimes1000(t)

toMs(s) == NumberTimes1000(ReplaceComma(SubSeq(s, 1, Len(s) - 1)))

RECURSIVE GrowDelays(_, _)
\* while (delays.length < durations.length) delays = delays.concat(delays)
GrowDelays(delays, n) == IF Len(delays) < n THEN GrowDelays(delays \o delays, n) ELSE delays

MaxOf(S) == CHOOSE x \in S : \A y \in S : y <= x

\* (mutant) getTimeout looking at the first property only
getTimeoutFirst(delays, durations) == toMs(durations[1]) + toMs(delays[1])

getTimeout(delays, durations) ==
    LET ds == GrowDelays(delays, Len(durations))
    IN  MaxOf({toMs(durations[i]) + toMs(ds[i]) : i \in 1..Len(durations)})

getTransitionInfo(styles) ==
    LET transitionDelays    == getStyleProperties(styles.transitionDelay)
        transitionDurations == getStyleProperties(styles.transitionDuration)
        transitionTimeout   == getTimeout(transitionDelays, transitionDurations)
    IN  IF transitionTimeout > 0
        THEN [timeout |-> transitionTimeout, propCount |-> Len(transitionDurations)]
        ELSE [timeout |-> 0, propCount |-> 0]

-----------------------------------------------------------------------------
\* The mutable world a handler works on, threaded through its statements:
\* m = [classList, display, props, endId, rafQueue, waits, ops].

World ==
    [classList |-> classList, display |-> display, props |-> props, endId |-> endId,
     rafQueue |-> rafQueue, waits |-> waits, ops |-> <<>>]

Range(f) == {f[i] : i \in DOMAIN f}

\* one entry of the log of DOM operations: op on element el with argument arg
Log(m, op, el, arg) ==
    [m EXCEPT !.ops = Append(@, [op |-> op, el |-> el, arg |-> arg])]

\* `${name}-enter-from` and the like, as the tokens that split(/\s+/) yields
ClassName(name, suffix) ==
    [i \in 1..Len(name) |-> IF i = Len(name) THEN name[i] \o suffix ELSE name[i]]

addTransitionClass(m, el, cls) ==
    [Log(m, "add", el, cls) EXCEPT !.classList[el] = @ \cup Range(cls)]

removeTransitionClass(m, el, cls) ==
    [Log(m, "remove", el, cls) EXCEPT !.classList[el] = @ \ Range(cls)]

getElementDisplay(el) == IF hasStyle[el] THEN display[el] ELSE ""

isHTMLElement(el) == hasStyle[el]

setElementDisplay(m, el, d) ==
    IF isHTMLElement(el)
    THEN [Log(m, "display", el, <<d>>) EXCEPT !.display[el] = d]
    ELSE m

forceReflow(m, el) == Log(m, "reflow", el, <<>>)

\* (mutant) saveArgument without the normalization of a duration
saveArgumentRaw(m, el, arg, val) == [m EXCEPT !.props[el]["_" \o arg] = val]

saveArgument(m, el, arg, val) ==
    LET value == IF arg = TransitionArgument.Duration /\ ~IsArray(val)
                 THEN Arr(<<val.num, val.num>>)
                 ELSE val
    IN  [m EXCEPT !.props[el]["_" \o arg] = value]

\* finishEnter(done) of the effect closure; no caller passes done
finishEnter(m, el, name) ==
    LET m1 == removeTransitionClass(m, el, ClassName(name, "-enter-active"))
    IN  removeTransitionClass(m1, el, ClassName(name, "-enter-to"))

\* (mutant) finishLeave that leaves the leave-to class in place
finishLeaveKeepsTo(m, el, name, hide) ==
    LET m1 == removeTransitionClass(m, el, ClassName(name, "-leave-active"))
    IN  IF hide THEN setElementDisplay(m1, el, "none") ELSE m1

\* finishLeave(done); hide says that done is the callback setting display to 'none'
finishLeave(m, el, name, hide) ==
    LET m1 == removeTransitionClass(m, el, ClassName(name, "-leave-active"))
        m2 == removeTransitionClass(m1, el, ClassName(name, "-leave-to"))
    IN  IF hide THEN setElementDisplay(m2, el, "none") ELSE m2

requestAnimationFrame(m, cb) ==
    [m EXCEPT !.rafQueue = Append(@, cb)]

\* nextFrame(cb): cb is [el, show, name, explicitTimeout, phase], what the closure holds
nextFrame(m, cb) ==
    requestAnimationFrame(m, [el |-> cb.el, inner |-> FALSE, show |-> cb.show,
                              name |-> cb.name, explicitTimeout |-> cb.explicitTimeout,
                              phase |-> cb.phase])

\* the resolve callback of wait id: finishEnter, or finishLeave and display = 'none'
resolve(m, id) ==
    LET w  == m.waits[id]
        m1 == [m EXCEPT !.waits[id].resolved = @ + 1]
    IN  IF w.show THEN finishEnter(m1, w.el, w.name)
                  ELSE finishLeave(m1, w.el, w.name, TRUE)

\* (mutant) resolveIfNotStale without the comparison of ids
resolveAlways(m, id) == resolve(m, id)

resolveIfNotStale(m, id) ==
    IF Num(id) = m.props[m.waits[id].el]["_endId"] THEN resolve(m, id) ELSE m

\* end() of wait id
end(m, id) ==
    resolveIfNotStale([m EXCEPT !.waits[id].listening = FALSE], id)

\* (mutant) onEnd without the test of the event's target
onEndAnyTarget(m, id, onTarget) ==
    LET m1 == [m EXCEPT !.waits[id].ended = @ + 1]
    IN  IF m1.waits[id].ended >= m1.waits[id].propCount THEN end(m1, id) ELSE m1

\* onEnd(e) of wait id; onTarget is e.target === el
onEnd(m, id, onTarget) ==
    IF onTarget
    THEN LET m1 == [m EXCEPT !.waits[id].ended = @ + 1]
         IN  IF m1.waits[id].ended >= m1.waits[id].propCount THEN end(m1, id) ELSE m1
    ELSE m

\* the callback of the second setTimeout of wait id
fallbackTimeout(m, id) ==
    IF m.waits[id].ended < m.waits[id].propCount THEN end(m, id) ELSE m

\* (mutant) whenTransitionEnd that reads the counter without advancing it
whenTransitionEndSameCounter(m, cb, styles) ==
    LET id   == m.endId + 1
        m1   == [m EXCEPT !.props[cb.el]["_endId"] = Num(id)]
        info == getTransitionInfo(styles)
    IN  [m1 EXCEPT !.waits = Append(@,
            [el |-> cb.el, show |-> cb.show, name |-> cb.name, phase |-> cb.phase,
             explicitTimeout |-> cb.explicitTimeout,
             explicitTimer |-> Truthy(cb.explicitTimeout), styles |-> styles,
             timeout |-> info.timeout, propCount |-> info.propCount,
             fallbackTimer |-> TRUE, listening |-> TRUE, ended |-> 0, resolved |-> 0])]

\* whenTransitionEnd(el, explicitTimeout, resolve); cb holds what resolve closes
\* over, styles is what getComputedStyle(el) returns at this moment (kept in the
\* record of the wait as history)
whenTransitionEnd(m, cb, styles) ==
    LET id   == m.endId + 1
        m1   == [m EXCEPT !.endId = id, !.props[cb.el]["_endId"] = Num(id)]
        expl == Truthy(cb.explicitTimeout)
        info == getTransitionInfo(styles)
    IN  [m1 EXCEPT !.waits = Append(@,
            [el |-> cb.el, show |-> cb.show, name |-> cb.name, phase |-> cb.phase,
             explicitTimeout |-> cb.explicitTimeout, explicitTimer |-> expl,
             styles |-> styles,
             timeout |-> info.timeout, propCount |-> info.propCount,
             fallbackTimer |-> TRUE, listening |-> TRUE, ended |-> 0, resolved |-> 0])]

\* the callback given to nextFrame by the enter branch and by the leave branch
frameCallback(m, cb, styles) ==
    LET dir == IF cb.show THEN "-enter" ELSE "-leave"
        m1  == removeTransitionClass(m, cb.el, ClassName(cb.name, dir \o "-from"))
        m2  == addTransitionClass(m1, cb.el, ClassName(cb.name, dir \o "-to"))
    IN  whenTransitionEnd(m2, cb, styles)

\* one callback of the animation-frame queue: the outer one requests the inner one
runRaf(m, cb, styles) ==
    IF cb.inner THEN frameCallback(m, cb, styles)
    ELSE requestAnimationFrame(m, [cb EXCEPT !.inner = TRUE])

\* the first run of the effect
firstRun(m, el, show) ==
    setElementDisplay(m, el, IF show THEN originalDisplay[el] ELSE "none")

\* a later run of the effect; n is the number of the phase it starts
transitionRun(m, el, show, n) ==
    LET name     == IF m.props[el]["_name"] = Undefined THEN DefautlTransitionName
                    ELSE m.props[el]["_name"].str
        duration == m.props[el]["_duration"]
        enterDuration == OptIndex(duration, 0)
        leaveDuration == OptIndex(duration, 1)
    IN  IF show
        THEN LET m1 == finishLeave(m, el, name, FALSE)
                 m2 == addTransitionClass(m1, el, ClassName(name, "-enter-active"))
                 m3 == addTransitionClass(m2, el, ClassName(name, "-enter-from"))
                 m4 == setElementDisplay(m3, el, originalDisplay[el])
             IN  nextFrame(m4, [el |-> el, show |-> TRUE, name |-> name,
                                explicitTimeout |-> enterDuration, phase |-> n])
        ELSE LET m1 == finishEnter(m, el, name)
                 m2 == addTransitionClass(m1, el, ClassName(name, "-leave-from"))
                 m3 == forceReflow(m2, el)
                 m4 == addTransitionClass(m3, el, ClassName(name, "-leave-active"))
             IN  nextFrame(m4, [el |-> el, show |-> FALSE, name |-> name,
                                explicitTimeout |-> leaveDuration, phase |-> n])

\* the function returned by the directive
cleanup(m, el) == [m EXCEPT !.props[el] = [p \in propsToClean |-> Undefined]]

-----------------------------------------------------------------------------
\* State machine.

Els == DOMAIN classList

\* the directive closures, and the history variables no callback touches
closure == <<bound, mounted, originalDisplay>>
history == <<binds, phase, lastPhase, shown, mountNo, cleaned>>

Commit(m) ==
    /\ classList' = m.classList
    /\ display' = m.display
    /\ props' = m.props
    /\ endId' = m.endId
    /\ rafQueue' = m.rafQueue
    /\ waits' = m.waits
    /\ ops' = IF m.ops = <<>> THEN ops ELSE m.ops

\* a page of elements E, before any directive is bound
InitOn(E) ==
    /\ hasStyle \in [E -> BOOLEAN]
    /\ display = [e \in E |-> IF hasStyle[e] THEN "block" ELSE ""]
    /\ classList = [e \in E |-> {}]
    /\ props = [e \in E |-> [p \in propsToClean |-> Undefined]]
    /\ endId = 0
    /\ bound = [e \in E |-> FALSE]
    /\ mounted = [e \in E |-> FALSE]
    /\ originalDisplay = [e \in E |-> ""]
    /\ rafQueue = <<>>
    /\ waits = <<>>
    /\ binds = 0
    /\ phase = 0
    /\ lastPhase = [e \in E |-> [n |-> 0, show |-> FALSE]]
    /\ shown = [e \in E |-> FALSE]
    /\ mountNo = [e \in E |-> 0]
    /\ cleaned = [e \in E |-> FALSE]
    /\ ops = <<>>

Init == InitOn({"el"})

\* (mutant) the test of line 36 without `arg !== DefaultArg`
isAuxiliaryAnyRecognized(arg) == arg # "" /\ isTransitionArugument(arg)

\* the test of line 36: the binding is an auxiliary argument, not the visibility one
isAuxiliary(arg) == arg # "" /\ isTransitionArugument(arg) /\ arg # DefaultArg

\* what ctx.get() yields for a binding with argument arg
ValuesOf(arg) ==
    CASE arg = TransitionArgument.Name -> NameVals
      [] arg = TransitionArgument.Duration -> DurationVals
      [] OTHER -> {Undefined}

\* transition(ctx): the host applies the directive to element el.  The host walks
\* the attributes of an element once, when it mounts it: an auxiliary binding is
\* taken while no visibility effect of the element is registered (saveArgument and
\* the first run of the effect touch different state, so their order is immaterial).
Directive(el, arg, val) ==
    /\ binds < MaxBinds
    /\ binds' = binds + 1
    /\ cleaned' = [cleaned EXCEPT ![el] = FALSE]
    /\ IF isAuxiliary(arg)
       THEN /\ ~bound[el]
            /\ Commit(saveArgument(World, el, arg, val))
            /\ UNCHANGED <<bound, mounted, originalDisplay, mountNo>>
       ELSE /\ ~bound[el]
            /\ bound' = [bound EXCEPT ![el] = TRUE]
            /\ mountNo' = [mountNo EXCEPT ![el] = @ + 1]
            /\ mounted' = [mounted EXCEPT ![el] = FALSE]
            /\ originalDisplay' = [originalDisplay EXCEPT ![el] = getElementDisplay(el)]
            /\ Commit(World)
    /\ UNCHANGED <<hasStyle, phase, lastPhase, shown>>

\* (mutant) the effect callback without the `if (!mounted)` branch
effectWithoutMountCheck(m, el, show, n) == transitionRun(m, el, show, n)

\* the body of the effect callback, lines 44-100
effect(m, el, show, n) ==
    IF ~mounted[el] THEN firstRun(m, el, show) ELSE transitionRun(m, el, show, n)

\* the host runs the visibility effect of el; show is what ctx.get() yields
EffectRun(el, show) ==
    /\ bound[el]
    /\ mounted[el] => phase < MaxPhases
    /\ Commit(effect(World, el, show, phase + 1))
    /\ mounted' = [mounted EXCEPT ![el] = TRUE]
    /\ phase' = IF mounted[el] THEN phase + 1 ELSE phase
    /\ lastPhase' = IF mounted[el]
                    THEN [lastPhase EXCEPT ![el] = [n |-> phase + 1, show |-> show]]
                    ELSE lastPhase
    /\ shown' = [shown EXCEPT ![el] = show]
    /\ UNCHANGED <<hasStyle, bound, originalDisplay, binds, mountNo, cleaned>>

\* the host tears the binding down: it stops the effect and calls the cleanup;
\* the closure is unreachable from then on, its variables are reset
Cleanup(el) ==
    /\ bound[el]
    /\ Commit(cleanup(World, el))
    /\ bound' = [bound EXCEPT ![el] = FALSE]
    /\ mounted' = [mounted EXCEPT ![el] = FALSE]
    /\ originalDisplay' = [originalDisplay EXCEPT ![el] = ""]
    /\ shown' = [shown EXCEPT ![el] = FALSE]
    /\ cleaned' = [cleaned EXCEPT ![el] = TRUE]
    /\ UNCHANGED <<hasStyle, binds, phase, lastPhase, mountNo>>

RECURSIVE RunFrame(_, _, _, _)
\* the callbacks batch[i..] of one animation frame, in request order
RunFrame(m, batch, i, st) ==
    IF i > Len(batch) THEN m
    ELSE RunFrame(runRaf(m, batch[i], IF batch[i].inner THEN st[i] ELSE NoStyles),
                  batch, i + 1, st)

\* one animation frame: every callback requested before it runs; requests made
\* meanwhile wait for the next frame; S is what getComputedStyle may return
FrameWith(S) ==
    /\ rafQueue # <<>>
    /\ \E st \in [{i \in 1..Len(rafQueue) : rafQueue[i].inner} -> S] :
          Commit(RunFrame([World EXCEPT !.rafQueue = <<>>], rafQueue, 1, st))
    /\ UNCHANGED <<hasStyle, closure, history>>

Frame == FrameWith(Styles)

\* the timer set for the explicit duration of wait id fires (delays depend on the
\* bound durations and the computed styles: timers of different waits, and the two
\* timers of one wait, fire in any order)
ExplicitTimer(id) ==
    /\ waits[id].explicitTimer
    /\ Commit(resolveIfNotStale([World EXCEPT !.waits[id].explicitTimer = FALSE], id))
    /\ UNCHANGED <<hasStyle, closure, history>>

\* the timer set for timeout + 1 of wait id fires
FallbackTimer(id) ==
    /\ waits[id].fallbackTimer
    /\ Commit(fallbackTimeout([World EXCEPT !.waits[id].fallbackTimer = FALSE], id))
    /\ UNCHANGED <<hasStyle, closure, history>>

RECURSIVE RunListeners(_, _, _, _)
\* the transitionend listeners ids[i..] of one dispatch, in registration order
RunListeners(m, ids, i, onTarget) ==
    IF i > Len(ids) THEN m
    ELSE RunListeners(onEnd(m, ids[i], onTarget), ids, i + 1, onTarget)

RECURSIVE ListeningFrom(_, _)
\* the waits from id on that listen on el, ascending
ListeningFrom(el, id) ==
    IF id > Len(waits) THEN <<>>
    ELSE (IF waits[id].el = el /\ waits[id].listening THEN <<id>> ELSE <<>>)
         \o ListeningFrom(el, id + 1)

\* a transitionend event reaches el; onTarget: el itself is its target, otherwise
\* it bubbles from a descendant
TransitionEnd(el, onTarget) ==
    /\ ListeningFrom(el, 1) # <<>>
    /\ Commit(RunListeners(World, ListeningFrom(el, 1), 1, onTarget))
    /\ UNCHANGED <<hasStyle, closure, history>>

Next ==
    \/ \E el \in Els, arg \in Args : \E val \in ValuesOf(arg) : Directive(el, arg, val)
    \/ \E el \in Els, show \in BOOLEAN : EffectRun(el, show)
    \/ \E el \in Els : Cleanup(el)
    \/ Frame
    \/ \E id \in 1..Len(waits) : ExplicitTimer(id)
    \/ \E id \in 1..Len(waits) : FallbackTimer(id)
    \/ \E el \in Els, onTarget \in BOOLEAN : TransitionEnd(el, onTarget)

Spec == Init /\ [][Next]_vars

-----------------------------------------------------------------------------
\* Properties.

\* the class token that marks a stage of a direction, e.g. "v-enter-from"
StageClass(name, suffix) == name[Len(name)] \o suffix

\* the names a class can carry in this model
AllNames == {DefautlTransitionName} \cup {v.str : v \in NameVals}

EnterStages == {"-enter-from", "-enter-active", "-enter-to"}
LeaveStages == {"-leave-from", "-leave-active", "-leave-to"}

HasStage(e, stages) ==
    \E n \in AllNames, s \in stages : StageClass(n, s) \in classList[e]

\* el is under its first visibility binding, which was never torn down
FirstMount(e) == mountNo[e] = 1 /\ bound[e]

\* no animation-frame callback and no timer is pending
Quiescent ==
    /\ rafQueue = <<>>
    /\ \A id \in DOMAIN waits : ~waits[id].explicitTimer /\ ~waits[id].fallbackTimer

\* wait id is the live wait of its element
Live(id) == props[waits[id].el]["_endId"] = Num(id)

\* the step runs the resolve callback of wait id
Resolves(id) == waits'[id].resolved > waits[id].resolved

\* the step is a timer firing or a transitionend dispatch that reached a listener
CompletionStep ==
    /\ Len(waits') = Len(waits) /\ waits' # waits
    /\ rafQueue' = rafQueue /\ phase' = phase /\ binds' = binds /\ bound' = bound

\* C1: the first run of the visibility effect after binding adds and removes no
\* class, schedules no frame, timer or listener, leaves the element's fields and
\* the id counter alone, marks the binding mounted, and writes only the inline
\* display: the display captured at bind time if show is true, 'none' otherwise
\* (an element without inline style is not written at all).
C1_FirstRunOnlyWritesDisplay ==
    [][\A e \in Els, show \in BOOLEAN :
          (EffectRun(e, show) /\ ~mounted[e]) =>
              /\ classList' = classList
              /\ rafQueue' = rafQueue
              /\ waits' = waits
              /\ endId' = endId
              /\ props' = props
              /\ mounted'[e]
              /\ display' = [display EXCEPT ![e] =
                                IF hasStyle[e]
                                THEN (IF show THEN originalDisplay[e] ELSE "none")
                                ELSE @]]_vars

\* C1 witness: a binding whose first run got show = false: mounted, hidden, no
\* class, nothing scheduled.
C1_Witness ==
    \E e \in Els :
        /\ bound[e] /\ mounted[e] /\ lastPhase[e].n = 0
        /\ hasStyle[e] /\ ~shown[e] /\ display[e] = "none"
        /\ classList[e] = {} /\ rafQueue = <<>> /\ waits = <<>>

\* C10: a directive call with argument 'name' or 'duration' stores the value in the
\* matching field of the element and changes nothing else (no effect registered, no
\* class, no display, nothing scheduled); a call with any other argument (none,
\* 'show', an unrecognized one) registers the not yet mounted visibility effect,
\* captures the current display and stores nothing.
C10_BindingDispatch ==
    [][\A e \in Els, arg \in Args : \A val \in ValuesOf(arg) :
          Directive(e, arg, val) =>
              /\ classList' = classList /\ display' = display
              /\ rafQueue' = rafQueue /\ waits' = waits /\ endId' = endId
              /\ IF arg \in {"name", "duration"}
                 THEN /\ bound' = bound /\ mounted' = mounted
                      /\ props'[e]["_" \o arg] \in
                             IF arg = "name" THEN {val}
                             ELSE {val, Arr(<<val.num, val.num>>)}
                      /\ \A p \in propsToClean \ {"_" \o arg} : props'[e][p] = props[e][p]
                 ELSE /\ ~bound[e] /\ bound'[e] /\ ~mounted'[e]
                      /\ originalDisplay'[e] = getElementDisplay(e)
                      /\ props' = props]_vars

\* C10 witness: an element whose duration was stored by one call and whose
\* visibility effect was registered by another, before its first run.
C10_Witness ==
    \E e \in Els :
        /\ props[e]["_duration"] # Undefined
        /\ bound[e] /\ ~mounted[e] /\ classList[e] = {}

\* C2: under a binding that was never torn down, once no frame callback and no
\* timer is pending, the element carries no class of the direction opposite to the
\* last issued phase.
C2_OnlyLastPhaseClassesRemain ==
    \A e \in Els :
        (FirstMount(e) /\ lastPhase[e].n > 0 /\ Quiescent) =>
            IF lastPhase[e].show THEN ~HasStage(e, LeaveStages)
                                 ELSE ~HasStage(e, EnterStages)

\* C3: under a binding that was never torn down, a step never runs the resolve
\* callback of a wait that belongs to a phase older than the latest phase issued on
\* its element.
C3_NoCompletionOfEarlierPhase ==
    [][\A id \in DOMAIN waits :
          (FirstMount(waits[id].el) /\ Resolves(id)) =>
              waits[id].phase = lastPhase[waits[id].el].n]_vars

\* C4: a wait on a styled element, without explicit duration, whose computed style
\* gave propCount = 0 and timeout = 0, which saw no transitionend event, is still
\* live and whose fallback timer has fired, has been resolved.
C4_FallbackResolvesWithoutTransition ==
    \A id \in DOMAIN waits :
        ( /\ ~Truthy(waits[id].explicitTimeout)
          /\ waits[id].propCount = 0 /\ waits[id].timeout = 0
          /\ waits[id].ended = 0
          /\ hasStyle[waits[id].el]
          /\ ~waits[id].fallbackTimer
          /\ Live(id) ) => waits[id].resolved > 0

\* the transition name an effect run of e reads: _name, or the default
NameOf(e) ==
    IF props[e]["_name"] = Undefined THEN DefautlTransitionName ELSE props[e]["_name"].str

Op(op, e, arg) == [op |-> op, el |-> e, arg |-> arg]

\* the step runs the second frame callback of phase n: its wait is created
StartsWait(n) ==
    \E id \in DOMAIN waits' : id \notin DOMAIN waits /\ waits'[id].phase = n

\* a frame callback of phase n is still queued; inner: the second one
FramePending(n, inner) ==
    \E i \in DOMAIN rafQueue : rafQueue[i].phase = n /\ rafQueue[i].inner = inner

\* the step runs the resolve callback of the wait of phase n
Completes(n) == \E id \in DOMAIN waits : waits[id].phase = n /\ Resolves(id)

\* C5, synchronous part: a post-mount run with show = true adds enter-active, then
\* enter-from, then writes the bind-time display, requests one frame and starts no
\* wait.
C5_SyncOrder ==
    \A e \in Els :
        (EffectRun(e, TRUE) /\ mounted[e]) =>
            /\ SubSeq(ops', 3, Len(ops')) =
                   <<Op("add", e, ClassName(NameOf(e), "-enter-active")),
                     Op("add", e, ClassName(NameOf(e), "-enter-from"))>>
                   \o (IF hasStyle[e] THEN <<Op("display", e, <<originalDisplay[e]>>)>>
                       ELSE <<>>)
            /\ waits' = waits
            /\ rafQueue' = Append(rafQueue, rafQueue'[Len(rafQueue')])
            /\ ~rafQueue'[Len(rafQueue')].inner

\* C5/C6, frames: the second frame callback of a phase is requested by the step
\* that runs its first one, and the wait of a phase starts in the step that runs
\* its second one.
FramesBeforeWait ==
    \A n \in 1..phase :
        /\ (FramePending(n, TRUE)' /\ ~FramePending(n, TRUE)) => FramePending(n, FALSE)
        /\ StartsWait(n) => FramePending(n, TRUE)

\* C5, completion: the step that resolves the wait of the latest phase, an enter
\* phase, leaves neither enter-active nor enter-to on the element.
C5_Completion ==
    \A e \in Els :
        (FirstMount(e) /\ lastPhase[e].show /\ Completes(lastPhase[e].n)) =>
            /\ StageClass(NameOf(e), "-enter-active") \notin classList'[e]
            /\ StageClass(NameOf(e), "-enter-to") \notin classList'[e]

\* C5, display: while the latest phase of e is an enter phase, the inline display
\* is the one captured at bind time.
C5_DisplayThroughout ==
    \A e \in Els :
        (FirstMount(e) /\ hasStyle[e] /\ lastPhase[e].n > 0 /\ lastPhase[e].show) =>
            display[e] = originalDisplay[e]

\* C5: an enter phase that no later run interrupts: synchronous order, swap and
\* wait only after two frames, classes removed on completion, bind-time display
\* throughout.
C5_EnterPhase ==
    [][C5_SyncOrder /\ FramesBeforeWait /\ C5_Completion /\ C5_DisplayThroughout']_vars

\* C6, synchronous part: a post-mount run with show = false adds leave-from, reads
\* the layout, then adds leave-active, requests one frame, starts no wait and does
\* not write the display.
C6_SyncOrder ==
    \A e \in Els :
        (EffectRun(e, FALSE) /\ mounted[e]) =>
            /\ SubSeq(ops', 3, Len(ops')) =
                   <<Op("add", e, ClassName(NameOf(e), "-leave-from")),
                     Op("reflow", e, <<>>),
                     Op("add", e, ClassName(NameOf(e), "-leave-active"))>>
            /\ waits' = waits
            /\ rafQueue' = Append(rafQueue, rafQueue'[Len(rafQueue')])
            /\ ~rafQueue'[Len(rafQueue')].inner
            /\ display' = display

\* C6, completion: the step that resolves the wait of the latest phase, a leave
\* phase, removes leave-active and leave-to and then writes display 'none'.
C6_Completion ==
    \A e \in Els :
        (FirstMount(e) /\ ~lastPhase[e].show /\ Completes(lastPhase[e].n)) =>
            /\ StageClass(NameOf(e), "-leave-active") \notin classList'[e]
            /\ StageClass(NameOf(e), "-leave-to") \notin classList'[e]
            /\ hasStyle[e] =>
                   /\ display'[e] = "none"
                   /\ ops'[Len(ops')] = Op("display", e, <<"none">>)

\* C6, display: while the latest phase of e is a leave phase, only the completion
\* of that phase turns the display into 'none'.
C6_HiddenOnlyOnCompletion ==
    \A e \in Els :
        ( /\ FirstMount(e) /\ lastPhase[e].n > 0 /\ ~lastPhase[e].show
          /\ display[e] # "none" /\ display'[e] = "none" ) =>
            Completes(lastPhase[e].n)

\* C6: a leave phase that no later run interrupts: synchronous order with the
\* layout read before leave-active, swap and wait only after two frames, classes
\* removed and then display 'none' on completion, and not earlier.
C6_LeavePhase ==
    [][C6_SyncOrder /\ FramesBeforeWait /\ C6_Completion
         /\ C6_HiddenOnlyOnCompletion]_vars

\* C7: a timer or event step runs the resolve callback of a wait only if the
\* wait's id equals the element's _endId when the step starts; a step that runs no
\* resolve callback changes neither a class list nor a display.
C7_ResolveOnlyIfLive ==
    [][CompletionStep =>
          /\ \A id \in DOMAIN waits : Resolves(id) => Live(id)
          /\ (\A id \in DOMAIN waits : ~Resolves(id)) =>
                 (classList' = classList /\ display' = display)]_vars

\* C7 witness: a superseded wait whose fallback timer fired before its events
\* arrived: its listener is gone and its resolve callback never ran.
C7_Witness ==
    \E id \in DOMAIN waits :
        /\ props[waits[id].el]["_endId"].num > id
        /\ ~waits[id].fallbackTimer /\ ~waits[id].listening
        /\ waits[id].ended < waits[id].propCount
        /\ waits[id].resolved = 0

\* C8: no wait runs its resolve callback more than once.
C8_ResolveAtMostOnce == \A id \in DOMAIN waits : waits[id].resolved <= 1

\* C9: after the cleanup function ran and until a directive is bound again, the
\* element has none of the fields _name, _duration, _show, _endId.
C9_NoFieldAfterCleanup ==
    \A e \in Els : cleaned[e] => \A p \in propsToClean : props[e][p] = Undefined

\* the field a queued frame callback or a wait keeps of the phase it belongs to
SamePhase(a, b) ==
    /\ a.el = b.el /\ a.show = b.show /\ a.name = b.name /\ a.phase = b.phase
    /\ a.explicitTimeout = b.explicitTimeout

\* C11, storing: binding 'duration' with a number stores the pair (number, number),
\* binding it with a pair stores that pair.
C11_Stored ==
    \A e \in Els : \A val \in DurationVals :
        Directive(e, "duration", val) =>
            props'[e]["_duration"] = IF IsArray(val) THEN val ELSE Arr(<<val.num, val.num>>)

\* C11, use: a post-mount effect run hands the first component of the stored pair
\* to its enter phase and the second to its leave phase (nothing when no duration
\* is stored); the frame callbacks carry it unchanged, and the wait of the phase is
\* started with it as explicit duration.
C11_Used ==
    /\ \A e \in Els, show \in BOOLEAN :
           (EffectRun(e, show) /\ mounted[e]) =>
               rafQueue'[Len(rafQueue')].explicitTimeout =
                   OptIndex(props[e]["_duration"], IF show THEN 0 ELSE 1)
    /\ \A i \in DOMAIN rafQueue' :
           rafQueue'[i].inner => \E j \in DOMAIN rafQueue : SamePhase(rafQueue[j], rafQueue'[i])
    /\ \A id \in DOMAIN waits' :
           id \notin DOMAIN waits =>
               \E j \in DOMAIN rafQueue : rafQueue[j].inner /\ SamePhase(rafQueue[j], waits'[id])

\* C11: duration normalization and its use by the enter and leave phases.
C11_DurationNormalizedAndUsed == [][C11_Stored /\ C11_Used]_vars

\* C11 witness: the number 500 was bound as duration, the pair (500, 500) is stored
\* and a leave phase waits with 500 as explicit duration.
C11_Witness ==
    \E id \in DOMAIN waits :
        /\ props[waits[id].el]["_duration"] = Arr(<<500, 500>>)
        /\ ~waits[id].show /\ waits[id].explicitTimeout = Num(500)

-----------------------------------------------------------------------------
\* Second specification: one completion wait over many computed styles.  It starts
\* where a leave phase of a mounted element without bound name or duration has run
\* its first frame callback, lets the second one read any style of AllStyles, and
\* then lets the fallback timer and transitionend events of that wait happen.

\* longest list of transition delays or durations
MaxProps == 3

\* transition delays and durations an element may declare, in milliseconds
DelayMs == {0 - 100, 0, 100}
DurationMs == {0, 200, 300}

\* the non-empty lists over S of at most MaxProps entries
ListsOver(S) == UNION {[1..n -> S] : n \in 1..MaxProps}

\* every computed style over these lists, with either decimal separator
AllStyles ==
    {ComputedStyle(dl, du, sep) :
        dl \in ListsOver(DelayMs), du \in ListsOver(DurationMs), sep \in {".", ","}}

\* the state Spec reaches by a binding without argument, a first effect run with
\* show = true, a second run with show = false and one animation frame
InitInfo ==
    /\ hasStyle = [e \in {"el"} |-> TRUE]
    /\ display = [e \in {"el"} |-> "block"]
    /\ classList = [e \in {"el"} |-> {"v-leave-from", "v-leave-active"}]
    /\ props = [e \in {"el"} |-> [p \in propsToClean |-> Undefined]]
    /\ endId = 0
    /\ bound = [e \in {"el"} |-> TRUE]
    /\ mounted = [e \in {"el"} |-> TRUE]
    /\ originalDisplay = [e \in {"el"} |-> "block"]
    /\ rafQueue = <<[el |-> "el", inner |-> TRUE, show |-> FALSE,
                     name |-> DefautlTransitionName, explicitTimeout |-> Undefined,
                     phase |-> 1]>>
    /\ waits = <<>>
    /\ binds = 1
    /\ phase = 1
    /\ lastPhase = [e \in {"el"} |-> [n |-> 1, show |-> FALSE]]
    /\ shown = [e \in {"el"} |-> FALSE]
    /\ mountNo = [e \in {"el"} |-> 1]
    /\ cleaned = [e \in {"el"} |-> FALSE]
    /\ ops = <<[op |-> "remove", el |-> "el", arg |-> <<"v-enter-active">>],
               [op |-> "remove", el |-> "el", arg |-> <<"v-enter-to">>],
               [op |-> "add", el |-> "el", arg |-> <<"v-leave-from">>],
               [op |-> "reflow", el |-> "el", arg |-> <<>>],
               [op |-> "add", el |-> "el", arg |-> <<"v-leave-active">>]>>

NextInfo ==
    \/ FrameWith(AllStyles)
    \/ \E id \in 1..Len(waits) : FallbackTimer(id)
    \/ \E el \in Els, onTarget \in BOOLEAN : TransitionEnd(el, onTarget)

SpecInfo == InitInfo /\ [][NextInfo]_vars

\* the delay that belongs to the i-th duration: the delays repeat when they are fewer
CycledDelay(st, i) == st.delaysMs[((i - 1) % Len(st.delaysMs)) + 1]

\* the latest end of a declared transition, in milliseconds
LatestEnd(st) ==
    MaxOf({st.durationsMs[i] + CycledDelay(st, i) : i \in 1..Len(st.durationsMs)})

\* C12: for a computed style that lists delays and durations, the wait's timeout is
\* the maximum over i of duration i plus the delay cycled to i, and its propCount
\* the number of durations, when that maximum is positive; both are 0 otherwise.
C12_TimeoutAndPropCount ==
    \A id \in DOMAIN waits :
        LET st == waits[id].styles
        IN  st.durationsMs # <<>> =>
                IF LatestEnd(st) > 0
                THEN /\ waits[id].timeout = LatestEnd(st)
                     /\ waits[id].propCount = Len(st.durationsMs)
                ELSE /\ waits[id].timeout = 0
                     /\ waits[id].propCount = 0

\* C12 witness: delays (0, 100) and durations (200, 300) gave timeout 400 and
\* propCount 2.
C12_Witness ==
    \E id \in DOMAIN waits :
        /\ waits[id].styles.delaysMs = <<0, 100>>
        /\ waits[id].styles.durationsMs = <<200, 300>>
        /\ waits[id].timeout = 400 /\ waits[id].propCount = 2

-----------------------------------------------------------------------------
\* C13: under a binding that was never torn down, the class list of the element
\* never holds a class of the enter direction (enter-from, enter-active, enter-to)
\* together with a class of the leave direction (leave-from, leave-active, leave-to).
C13_NeverBothDirections ==
    \A e \in Els :
        FirstMount(e) => ~(HasStage(e, EnterStages) /\ HasStage(e, LeaveStages))

\* C14: when a post-mount effect run with show = true returns, the element has
\* neither leave-active nor leave-to of the transition name the run read; when a
\* run with show = false returns, it has neither enter-active nor enter-to.
C14_OppositePhaseCancelled ==
    [][\A e \in Els, show \in BOOLEAN :
          (EffectRun(e, show) /\ mounted[e]) =>
              LET dir == IF show THEN "-leave" ELSE "-enter"
              IN  /\ StageClass(NameOf(e), dir \o "-active") \notin classList'[e]
                  /\ StageClass(NameOf(e), dir \o "-to") \notin classList'[e]]_vars

\* C14 witness: an enter run has just interrupted a leave phase that had reached
\* its leave-to stage and whose wait is unresolved: no leave class is left.
C14_Witness ==
    \E e \in Els, id \in DOMAIN waits :
        /\ waits[id].el = e /\ ~waits[id].show /\ waits[id].resolved = 0
        /\ waits[id].phase + 1 = lastPhase[e].n /\ lastPhase[e].show
        /\ FramePending(lastPhase[e].n, FALSE)
        /\ HasStage(e, EnterStages) /\ ~HasStage(e, LeaveStages)

\* C15: a wait that was given an explicit duration longer than its computed
\* timeout is not resolved while its explicit timer has not fired.
C15_OnlyExplicitTimerResolves ==
    \A id \in DOMAIN waits :
        ( /\ Truthy(waits[id].explicitTimeout)
          /\ waits[id].timeout + 1 < waits[id].explicitTimeout.num
          /\ waits[id].explicitTimer ) => waits[id].resolved = 0

\* C16: a transitionend dispatch that bubbles from a descendant changes no wait, no
\* class and no display; one whose target is the element adds one to the counter
\* of every wait still listening on it; a listening wait whose counter thereby
\* reaches its propCount stops listening and runs its resolve callback if it is
\* live, one whose counter stays below keeps listening and is not resolved; a wait
\* that stopped listening is not changed by any later event.
C16_EventPath ==
    [][\A e \in Els, onTarget \in BOOLEAN :
          TransitionEnd(e, onTarget) =>
              /\ ~onTarget => (waits' = waits /\ classList' = classList /\ display' = display)
              /\ \A id \in DOMAIN waits :
                     IF onTarget /\ waits[id].el = e /\ waits[id].listening
                     THEN /\ waits'[id].ended = waits[id].ended + 1
                          /\ IF waits'[id].ended >= waits[id].propCount
                             THEN /\ ~waits'[id].listening
                                  /\ waits'[id].resolved =
                                         waits[id].resolved + (IF Live(id) THEN 1 ELSE 0)
                             ELSE /\ waits'[id].listening
                                  /\ waits'[id].resolved = waits[id].resolved
                     ELSE waits'[id] = waits[id]]_vars

\* C16 witness: a wait with propCount 2 that was resolved by its second event and
\* by nothing else: its timers are still pending and its listener is gone.
C16_Witness ==
    \E id \in DOMAIN waits :
        /\ waits[id].propCount = 2 /\ waits[id].ended = 2
        /\ waits[id].fallbackTimer /\ ~Truthy(waits[id].explicitTimeout)
        /\ ~waits[id].listening /\ waits[id].resolved = 1
        /\ ~HasStage(waits[id].el, LeaveStages \cup EnterStages)

\* C17: once the fallback timer of a wait has fired, the wait's transitionend
\* listener is no longer registered on the element.
C17_NoListenerAfterFallback ==
    \A id \in DOMAIN waits : ~waits[id].fallbackTimer => ~waits[id].listening

\* C19: under a mounted binding that was never torn down, while the latest value
\* delivered to the visibility effect is true, the inline display of a styled
\* element is the display captured at bind time.
C19_ShownMeansDisplayed ==
    \A e \in Els :
        (FirstMount(e) /\ mounted[e] /\ hasStyle[e] /\ shown[e]) =>
            display[e] = originalDisplay[e]

\* C20: from the cleanup of a binding until a directive is bound to the element
\* again, no step changes the class list or the inline display of the element.
C20_QuietAfterCleanup ==
    [][\A e \in Els :
          (cleaned[e] /\ cleaned'[e]) =>
              (classList'[e] = classList[e] /\ display'[e] = display[e])]_vars

-----------------------------------------------------------------------------
\* Third specification: a page with two styled elements, each bound without
\* auxiliary arguments, sharing the module-level counter.

InitTwo == InitOn({"e1", "e2"}) /\ hasStyle = [e \in {"e1", "e2"} |-> TRUE]

NextTwo ==
    \/ \E el \in Els : Directive(el, "", Undefined)
    \/ \E el \in Els, show \in BOOLEAN : EffectRun(el, show)
    \/ \E el \in Els : Cleanup(el)
    \/ Frame
    \/ \E id \in 1..Len(waits) : FallbackTimer(id)
    \/ \E el \in Els, onTarget \in BOOLEAN : TransitionEnd(el, onTarget)

SpecTwo == InitTwo /\ [][NextTwo]_vars

\* C18: the counter never decreases and counts the waits started so far; every
\* wait a step starts gets an id above the counter's value before the step, which
\* is no element's _endId at that time, and at most the counter's value after it;
\* the _endId of an element that stays bound never decreases.
C18_IdsFromOneCounter ==
    [][/\ endId' >= endId
       /\ endId' = Len(waits')
       /\ \A id \in DOMAIN waits' :
              id \notin DOMAIN waits =>
                  /\ id > endId /\ id <= endId'
                  /\ \A e \in Els : props[e]["_endId"] # Num(id)
                  /\ props'[waits'[id].el]["_endId"].num >= id
       /\ \A e \in Els :
              /\ props'[e]["_endId"] \in {Undefined} \cup {Num(i) : i \in 1..endId'}
              /\ (bound[e] /\ bound'[e]) =>
                     props'[e]["_endId"].num >= props[e]["_endId"].num]_vars

\* C18 witness: two elements with live waits of different ids, the later one on
\* an element that was unbound and bound again before.
C18_Witness ==
    \E a \in DOMAIN waits, b \in DOMAIN waits :
        /\ waits[a].el # waits[b].el /\ a < b
        /\ Live(a) /\ Live(b)
        /\ mountNo[waits[b].el] = 2 /\ bound[waits[b].el]

====
